---- MODULE Spec2Model ----
(***************************************************************************)
(* The WebSocket chat relay of spot-feed: the admission middleware         *)
(* (middleware/ws_auth.rs), the connection registry (ws/manager.rs) and    *)
(* the per-connection relay with its two tasks (ws/handler.rs).            *)
(*                                                                         *)
(* One connection attempt is a value c of Conns.  Its handle_socket future *)
(* is followed by hpc[c], its recv_task by rpc[c], its send_task by        *)
(* wpc[c].  The mpsc channel created by connection c is identified by c:   *)
(* its buffer is queue[c], its only UnboundedSender lives in the Client    *)
(* stored in the registry, its UnboundedReceiver lives in send_task.       *)
(***************************************************************************)
EXTENDS Integers, Sequences, FiniteSets, TLC

\* ------------------------------------------------------------------ bounds
\* Number of connection attempts.
MaxConns == 3
\* Total number of inbound frames read by all recv_tasks together.
MaxFrames == 2

Conns == 1..MaxConns

\* --------------------------------------------------------------- the data
\* Rows of the users table (id |-> username); "Z" is a token subject that
\* has no row.
UserIds == {"A", "B", "C"}
Subjects == UserIds \cup {"Z"}
Joints == {"G1", "G2"}

Username(u) == "name_" \o u

\* Rows of joint_members at start: A created G1, B and C joined it, C created G2.
InitialMembers ==
  { [joint |-> "G1", user |-> "A", role |-> "creator"],
    [joint |-> "G1", user |-> "B", role |-> "member"],
    [joint |-> "G1", user |-> "C", role |-> "member"],
    [joint |-> "G2", user |-> "C", role |-> "creator"] }

\* What a client may put in the Authorization header.
Credentials ==
  { [kind |-> k, sub |-> "-"] : k \in {"missing", "notbearer", "garbage", "expired", "badsub"} }
  \cup { [kind |-> "token", sub |-> u] : u \in Subjects }

\* What a client may put on the transport (receiver.next()).
FrameKinds == {"chat", "junk", "binary", "close", "error"}

NoReq == [user |-> "-", joint |-> "-", name |-> "-"]
NoMsg == [id |-> 0, joint |-> "-", user |-> "-", name |-> "-", content |-> "-"]

VARIABLES
  members,   \* table joint_members
  messages,  \* table messages: the ChatMessage rows inserted
  dropped,   \* ids of the messages whose INSERT returned an error (logged)
  clients,   \* ConnectionManager.clients: the Client values of the map
  hpc,       \* per connection: where its request / handle_socket future is
  req,       \* per connection: the extensions (user_id, joint_id, username)
  outcome,   \* per connection: the AppError the middleware answered, or "none"
  trail,     \* per connection: the admission checks passed, in order
  rpc,       \* per connection: where recv_task is
  wpc,       \* per connection: where send_task is
  rabort,    \* per connection: recv_task.abort() was called on a live task
  wabort,    \* per connection: send_task.abort() was called on a live task
  cur,       \* per connection: the message recv_task is handling
  todo,      \* per connection: map keys the running broadcast has yet to visit
  skipped,   \* per connection: keys whose send failed in the running broadcast
  queue,     \* per connection: the buffer of its mpsc channel
  enq,       \* per connection: every payload ever sent into its channel
  out,       \* per connection: the payloads written to its transport
  nread,     \* inbound frames read so far, all connections together
  nderegs,   \* per connection: calls of remove_client by its handle_socket
  deregd,    \* per user id: remove_client returned and no add_client since
  left       \* per connection: its remove_client found an entry ("disconnected" logged)

vars == << members, messages, dropped, clients, hpc, req, outcome, trail, rpc, wpc,
           rabort, wabort, cur, todo, skipped, queue, enq, out, nread, nderegs, deregd,
           left >>

\* ------------------------------------------------- ws/manager.rs: registry
Client(user_id, username, joint_id, sender) ==
  [user_id |-> user_id, username |-> username, joint_id |-> joint_id, sender |-> sender]

\* An insert that keeps the entry already stored under the key.
MapInsertKeep(map, client) == map \cup {client}

\* HashMap::insert: the value stored under the key replaces any earlier one.
MapInsert(map, client) ==
  { r \in map : r.user_id # client.user_id } \cup {client}

\* A remove that, finding no value under the key, takes some other entry out.
MapRemoveSome(map, user_id) ==
  IF map = {} \/ \E r \in map : r.user_id = user_id
  THEN { r \in map : r.user_id # user_id }
  ELSE map \ { CHOOSE x \in map : TRUE }

\* HashMap::remove: the value stored under the key, if any, leaves the map.
MapRemove(map, user_id) ==
  { r \in map : r.user_id # user_id }

\* add_client, lines 29-45, on the map.
add_client(map, user_id, username, joint_id, sender) ==
  MapInsert(map, Client(user_id, username, joint_id, sender))

\* A filter of broadcast_to_joint that does not look at the joint.
RecipientsAllJoints(map, joint_id, sender_id) ==
  { r.user_id : r \in { x \in map : x.user_id # sender_id } }

\* Line 64 without its second conjunct: the sender's own entry matches too.
RecipientsWithSelf(map, joint_id, sender_id) ==
  { r.user_id : r \in { x \in map : x.joint_id = joint_id } }

\* The keys the loop of broadcast_to_joint sends to: line 64.
Recipients(map, joint_id, sender_id) ==
  { r.user_id : r \in { x \in map : x.joint_id = joint_id /\ x.user_id # sender_id } }

\* The Client stored under a key (the key is present).
ClientOf(map, user_id) == CHOOSE r \in map : r.user_id = user_id

\* A count without the filter of line 78.
get_joint_user_count_all(map, joint_id) == Cardinality(map)

\* get_joint_user_count
get_joint_user_count(map, joint_id) ==
  Cardinality({ r \in map : r.joint_id = joint_id })

\* The RwLock: a read guard is held by every recv_task inside the loop of
\* broadcast_to_joint.  A write guard lives within one statement only.
ReadGuards == { c \in Conns : rpc[c] = "iter" }

\* A write() that is granted while read guards are held.
WriteLockNoWait == TRUE

\* write() is granted when no read guard is held.
WriteLockFree == ReadGuards = {}

\* UnboundedSender::send fails exactly when the receiver is gone: it is owned
\* by send_task and dropped when that task ends or is cancelled.
ReceiverAlive(c) == wpc[c] # "done"

\* The channel of c has a sender left: the Client in the map that holds it.
SenderAlive(c) == \E r \in clients : r.sender = c

\* ---------------------------------------------- middleware/ws_auth.rs
\* Lines 18-38: the header, the "Bearer " prefix, verify_token, the uuid in sub.
CheckCredential(cred) ==
  CASE cred.kind = "missing"   -> "Unauthorized"
    [] cred.kind = "notbearer" -> "Unauthorized"
    [] cred.kind = "expired"   -> "TokenExpired"
    [] cred.kind = "garbage"   -> "InvalidToken"
    [] cred.kind = "badsub"    -> "InvalidToken"
    [] OTHER                   -> "ok"

\* Line 55: the row of joint_members was found.
IsMember(rows, joint_id, user_id) ==
  \E m \in rows : m.joint = joint_id /\ m.user = user_id

\* An into_response that answers every AppError of the middleware with 401.
StatusCodeUnauthorized(err) == "UNAUTHORIZED"

\* errors.rs, AppError::into_response: the status code of the response.
StatusCode(err) ==
  CASE err = "DatabaseError"   -> "INTERNAL_SERVER_ERROR"
    [] err = "InvalidToken"    -> "UNAUTHORIZED"
    [] err = "TokenExpired"    -> "UNAUTHORIZED"
    [] err = "Unauthorized"    -> "UNAUTHORIZED"
    [] err = "ValidationError" -> "BAD_REQUEST"
    [] OTHER                   -> "none"

\* The middleware returns Err: the request and its extensions are dropped.
Refuse(c, err) ==
  /\ hpc' = [hpc EXCEPT ![c] = "refused"]
  /\ outcome' = [outcome EXCEPT ![c] = err]
  /\ req' = [req EXCEPT ![c] = NoReq]

\* The credentials connection attempt c may present: the first attempt is
\* made by A, the second by B, any further one by A again (a second
\* device), by C or with a token whose subject has no row in users; each
\* may also present any of the unusable headers.
Offered(c) ==
  { cred \in Credentials :
      cred.kind = "token" =>
        cred.sub \in (CASE c = 1 -> {"A"} [] c = 2 -> {"B"} [] OTHER -> {"A", "C", "Z"}) }

\* Lines 18-38.
Authenticate(c) ==
  /\ hpc[c] = "idle"
  /\ \E cred \in Offered(c), joint_id \in Joints :
       IF CheckCredential(cred) = "ok"
       THEN /\ hpc' = [hpc EXCEPT ![c] = "authd"]
            /\ req' = [req EXCEPT ![c] = [user |-> cred.sub, joint |-> joint_id, name |-> "-"]]
            /\ trail' = [trail EXCEPT ![c] = Append(@, <<"credential", cred.sub, "-">>)]
            /\ UNCHANGED outcome
       ELSE /\ Refuse(c, CheckCredential(cred))
            /\ UNCHANGED trail
  /\ UNCHANGED << members, messages, dropped, clients, rpc, wpc, rabort, wabort, cur,
                  todo, skipped, queue, enq, out, nread, nderegs, deregd, left >>

\* Lines 41-44: SELECT username FROM users.
LookupUser(c) ==
  /\ hpc[c] = "authd"
  /\ \/ /\ Refuse(c, "DatabaseError")
        /\ UNCHANGED trail
     \/ /\ req[c].user \notin UserIds
        /\ Refuse(c, "Unauthorized")
        /\ UNCHANGED trail
     \/ /\ req[c].user \in UserIds
        /\ hpc' = [hpc EXCEPT ![c] = "named"]
        /\ req' = [req EXCEPT ![c].name = Username(req[c].user)]
        /\ trail' = [trail EXCEPT ![c] =
                       Append(@, <<"identity", req[c].user, Username(req[c].user)>>)]
        /\ UNCHANGED outcome
  /\ UNCHANGED << members, messages, dropped, clients, rpc, wpc, rabort, wabort, cur,
                  todo, skipped, queue, enq, out, nread, nderegs, deregd, left >>

\* Lines 55-59 left out: every caller passes.
MemberGateOpen(rows, joint_id, user_id) == TRUE

\* The membership test of lines 55-59.
MemberGate(rows, joint_id, user_id) == IsMember(rows, joint_id, user_id)

\* Lines 47-66: SELECT id FROM joint_members, then next.run(req).
CheckMember(c) ==
  /\ hpc[c] = "named"
  /\ \/ /\ Refuse(c, "DatabaseError")
        /\ UNCHANGED trail
     \/ /\ ~MemberGate(members, req[c].joint, req[c].user)
        /\ Refuse(c, "ValidationError")
        /\ UNCHANGED trail
     \/ /\ MemberGate(members, req[c].joint, req[c].user)
        /\ hpc' = [hpc EXCEPT ![c] = "admitted"]
        /\ trail' = [trail EXCEPT ![c] = Append(@, <<"membership", req[c].user, req[c].joint>>)]
        /\ UNCHANGED << outcome, req >>
  /\ UNCHANGED << members, messages, dropped, clients, rpc, wpc, rabort, wabort, cur,
                  todo, skipped, queue, enq, out, nread, nderegs, deregd, left >>

\* ------------------------------------------------- ws/handler.rs: the relay
\* handle_socket lines 56-126: the channel, add_client, the two spawns.
\* add_client takes the write lock for the one insert.
Register(c) ==
  /\ hpc[c] = "admitted"
  /\ WriteLockFree
  /\ clients' = add_client(clients, req[c].user, req[c].name, req[c].joint, c)
  /\ hpc' = [hpc EXCEPT ![c] = "running"]
  /\ rpc' = [rpc EXCEPT ![c] = "recv"]
  /\ wpc' = [wpc EXCEPT ![c] = "run"]
  /\ deregd' = [deregd EXCEPT ![req[c].user] = FALSE]
  /\ UNCHANGED << members, messages, dropped, req, outcome, trail, rabort, wabort, cur,
                  todo, skipped, queue, enq, out, nread, nderegs, left >>

\* The row of table messages written by the INSERT of lines 87-99.
ChatMessage(m) ==
  [id |-> m.id, joint_id |-> m.joint, user_id |-> m.user, content |-> m.content]

\* An OutgoingMessage that carries the display name in place of the sender id.
OutgoingMessageNamed(m) ==
  [id |-> m.id, joint_id |-> m.joint, user_id |-> m.name, username |-> m.name,
   content |-> m.content]

\* OutgoingMessage, lines 106-113, as serialised at line 116.
OutgoingMessage(m) ==
  [id |-> m.id, joint_id |-> m.joint, user_id |-> m.user, username |-> m.name,
   content |-> m.content]

\* The text of a well-formed inbound frame: {"content": ...}.
Contents == {"hi"}

\* Uuid::new_v4(), line 84: an id no other message has.  The id of the model
\* names the frame it was made for (frame_no, the frame's place among all the
\* frames read) and the connection whose recv_task read it.
new_v4(c, frame_no) == frame_no * (MaxConns + 1) + c
IdConn(id) == id % (MaxConns + 1)
IdFrame(id) == id \div (MaxConns + 1)

\* A recv_task that reads the next frame without waiting for the INSERT of
\* the frame before.
ReaderRecvEager(c) ==
  /\ rpc[c] \in {"recv", "insert"}
  /\ nread < MaxFrames
  /\ nread' = nread + 1
  /\ \E kind \in FrameKinds, content \in Contents :
       LET m == [id |-> new_v4(c, nread + 1), joint |-> req[c].joint, user |-> req[c].user,
                 name |-> req[c].name, content |-> content]
       IN CASE kind = "chat" /\ ~rabort[c] ->
                 /\ rpc' = [rpc EXCEPT ![c] = "insert"]
                 /\ cur' = [cur EXCEPT ![c] = m]
                 /\ UNCHANGED << messages, rabort >>
            [] kind = "chat" /\ rabort[c] ->
                 /\ rpc' = [rpc EXCEPT ![c] = "done"]
                 /\ rabort' = [rabort EXCEPT ![c] = FALSE]
                 /\ \E committed \in BOOLEAN :
                      messages' = IF committed THEN messages \cup {ChatMessage(m)}
                                  ELSE messages
                 /\ UNCHANGED cur
            [] kind \in {"junk", "binary"} ->
                 UNCHANGED << rpc, cur, messages, rabort >>
            [] OTHER ->
                 /\ rpc' = [rpc EXCEPT ![c] = "done"]
                 /\ rabort' = [rabort EXCEPT ![c] = FALSE]
                 /\ UNCHANGED << cur, messages >>
  /\ UNCHANGED << members, dropped, clients, hpc, req, outcome, trail, wpc, wabort,
                  todo, skipped, queue, enq, out, nderegs, deregd, left >>

\* A recv_task that ends on any frame that is not a well-formed chat frame.
ReaderRecvStrict(c) ==
  /\ rpc[c] = "recv"
  /\ nread < MaxFrames
  /\ nread' = nread + 1
  /\ \E kind \in FrameKinds, content \in Contents :
       LET m == [id |-> new_v4(c, nread + 1), joint |-> req[c].joint, user |-> req[c].user,
                 name |-> req[c].name, content |-> content]
       IN CASE kind = "chat" /\ ~rabort[c] ->
                 /\ rpc' = [rpc EXCEPT ![c] = "insert"]
                 /\ cur' = [cur EXCEPT ![c] = m]
                 /\ UNCHANGED << messages, rabort >>
            [] kind = "chat" /\ rabort[c] ->
                 /\ rpc' = [rpc EXCEPT ![c] = "done"]
                 /\ rabort' = [rabort EXCEPT ![c] = FALSE]
                 /\ \E committed \in BOOLEAN :
                      messages' = IF committed THEN messages \cup {ChatMessage(m)}
                                  ELSE messages
                 /\ UNCHANGED cur
            [] OTHER ->
                 /\ rpc' = [rpc EXCEPT ![c] = "done"]
                 /\ rabort' = [rabort EXCEPT ![c] = FALSE]
                 /\ UNCHANGED << cur, messages >>
  /\ UNCHANGED << members, dropped, clients, hpc, req, outcome, trail, wpc, wabort,
                  todo, skipped, queue, enq, out, nderegs, deregd, left >>

\* recv_task, lines 79-99 and 122-125: one frame from receiver.next().  A
\* chat frame gets a fresh id and its INSERT is sent; the task then waits for
\* the database.  A task whose abort was requested is dropped at that wait:
\* the statement was sent, the database commits it or not.
ReaderRecv(c) ==
  /\ rpc[c] = "recv"
  /\ nread < MaxFrames
  /\ nread' = nread + 1
  /\ \E kind \in FrameKinds, content \in Contents :
       LET m == [id |-> new_v4(c, nread + 1), joint |-> req[c].joint, user |-> req[c].user,
                 name |-> req[c].name, content |-> content]
       IN CASE kind = "chat" /\ ~rabort[c] ->
                 /\ rpc' = [rpc EXCEPT ![c] = "insert"]
                 /\ cur' = [cur EXCEPT ![c] = m]
                 /\ UNCHANGED << messages, rabort >>
            [] kind = "chat" /\ rabort[c] ->
                 /\ rpc' = [rpc EXCEPT ![c] = "done"]
                 /\ rabort' = [rabort EXCEPT ![c] = FALSE]
                 /\ \E committed \in BOOLEAN :
                      messages' = IF committed THEN messages \cup {ChatMessage(m)}
                                  ELSE messages
                 /\ UNCHANGED cur
            [] kind \in {"junk", "binary"} ->
                 UNCHANGED << rpc, cur, messages, rabort >>
            [] OTHER ->
                 /\ rpc' = [rpc EXCEPT ![c] = "done"]
                 /\ rabort' = [rabort EXCEPT ![c] = FALSE]
                 /\ UNCHANGED << cur, messages >>
  /\ UNCHANGED << members, dropped, clients, hpc, req, outcome, trail, wpc, wabort,
                  todo, skipped, queue, enq, out, nderegs, deregd, left >>

\* Lines 100-103 with a break: a failed INSERT ends recv_task.
AfterInsertErrBreak == "done"

\* Lines 100-103 without the continue: the failed message is broadcast.
AfterInsertErrFallThrough == "bcast"

\* Where recv_task goes when the INSERT returned an error: lines 100-103.
AfterInsertErr == "recv"

\* Lines 87-99: the INSERT succeeded.
ReaderInsertOk(c) ==
  /\ rpc[c] = "insert"
  /\ messages' = messages \cup {ChatMessage(cur[c])}
  /\ rpc' = [rpc EXCEPT ![c] = "bcast"]
  /\ UNCHANGED << members, dropped, clients, hpc, req, outcome, trail, wpc, rabort, wabort,
                  cur, todo, skipped, queue, enq, out, nread, nderegs, deregd, left >>

\* Lines 100-103: the INSERT failed; the error is logged and the loop continues.
ReaderInsertErr(c) ==
  /\ rpc[c] = "insert"
  /\ dropped' = dropped \cup {cur[c].id}
  /\ rpc' = [rpc EXCEPT ![c] = AfterInsertErr]
  /\ cur' = [cur EXCEPT ![c] = IF AfterInsertErr = "recv" THEN NoMsg ELSE @]
  /\ UNCHANGED << members, messages, clients, hpc, req, outcome, trail, wpc, rabort, wabort,
                  todo, skipped, queue, enq, out, nread, nderegs, deregd, left >>

\* broadcast_to_joint line 60 and the filter of line 64: the read guard is
\* taken; the loop will send to the matching entries of the map.
BroadcastBegin(c) ==
  /\ rpc[c] = "bcast"
  /\ rpc' = [rpc EXCEPT ![c] = "iter"]
  /\ todo' = [todo EXCEPT ![c] = Recipients(clients, cur[c].joint, cur[c].user)]
  /\ skipped' = [skipped EXCEPT ![c] = {}]
  /\ UNCHANGED << members, messages, dropped, clients, hpc, req, outcome, trail, wpc,
                  rabort, wabort, cur, queue, enq, out, nread, nderegs, deregd, left >>

\* A send error that ends the loop (an early return instead of the log line).
AfterSendErrReturn(rest) == {}

\* What is left of the loop after a send returned Err: lines 65-67.
AfterSendErr(rest) == rest

\* A loop over bounded channels of capacity one: the send waits for room.
BroadcastStepBounded(c) ==
  /\ rpc[c] = "iter"
  /\ \E user_id \in todo[c] :
       LET d == ClientOf(clients, user_id).sender
       IN IF ReceiverAlive(d)
          THEN /\ Len(queue[d]) < 1
               /\ queue' = [queue EXCEPT ![d] = Append(@, OutgoingMessage(cur[c]))]
               /\ enq' = [enq EXCEPT ![d] = Append(@, OutgoingMessage(cur[c]))]
               /\ todo' = [todo EXCEPT ![c] = @ \ {user_id}]
               /\ UNCHANGED skipped
          ELSE /\ skipped' = [skipped EXCEPT ![c] = @ \cup {user_id}]
               /\ todo' = [todo EXCEPT ![c] = AfterSendErr(@ \ {user_id})]
               /\ UNCHANGED << queue, enq >>
  /\ UNCHANGED << members, messages, dropped, clients, hpc, req, outcome, trail, rpc, wpc,
                  rabort, wabort, cur, out, nread, nderegs, deregd, left >>

\* A send that replaces what the buffer holds (a lost update between producers).
BroadcastStepOverwrite(c) ==
  /\ rpc[c] = "iter"
  /\ \E user_id \in todo[c] :
       LET d == ClientOf(clients, user_id).sender
       IN IF ReceiverAlive(d)
          THEN /\ queue' = [queue EXCEPT ![d] = << OutgoingMessage(cur[c]) >>]
               /\ enq' = [enq EXCEPT ![d] = Append(@, OutgoingMessage(cur[c]))]
               /\ todo' = [todo EXCEPT ![c] = @ \ {user_id}]
               /\ UNCHANGED skipped
          ELSE /\ skipped' = [skipped EXCEPT ![c] = @ \cup {user_id}]
               /\ todo' = [todo EXCEPT ![c] = AfterSendErr(@ \ {user_id})]
               /\ UNCHANGED << queue, enq >>
  /\ UNCHANGED << members, messages, dropped, clients, hpc, req, outcome, trail, rpc, wpc,
                  rabort, wabort, cur, out, nread, nderegs, deregd, left >>

\* Lines 62-68: one entry of the map, in the map's own (arbitrary) order.
BroadcastStep(c) ==
  /\ rpc[c] = "iter"
  /\ \E user_id \in todo[c] :
       LET d == ClientOf(clients, user_id).sender
       IN IF ReceiverAlive(d)
          THEN /\ queue' = [queue EXCEPT ![d] = Append(@, OutgoingMessage(cur[c]))]
               /\ enq' = [enq EXCEPT ![d] = Append(@, OutgoingMessage(cur[c]))]
               /\ todo' = [todo EXCEPT ![c] = @ \ {user_id}]
               /\ UNCHANGED skipped
          ELSE /\ skipped' = [skipped EXCEPT ![c] = @ \cup {user_id}]
               /\ todo' = [todo EXCEPT ![c] = AfterSendErr(@ \ {user_id})]
               /\ UNCHANGED << queue, enq >>
  /\ UNCHANGED << members, messages, dropped, clients, hpc, req, outcome, trail, rpc, wpc,
                  rabort, wabort, cur, out, nread, nderegs, deregd, left >>

\* Line 70: the loop is over, the read guard is dropped, broadcast_to_joint
\* returns and recv_task is back at receiver.next().
BroadcastEnd(c) ==
  /\ rpc[c] = "iter"
  /\ todo[c] = {}
  /\ rpc' = [rpc EXCEPT ![c] = "recv"]
  /\ cur' = [cur EXCEPT ![c] = NoMsg]
  /\ skipped' = [skipped EXCEPT ![c] = {}]
  /\ UNCHANGED << members, messages, dropped, clients, hpc, req, outcome, trail, wpc,
                  rabort, wabort, todo, queue, enq, out, nread, nderegs, deregd, left >>

\* JoinHandle::abort on recv_task takes effect where the task waits: for a
\* frame, for the database (the statement is in flight: it commits or not),
\* or for the read lock.  Inside the loop of broadcast_to_joint nothing waits.
ReaderCancel(c) ==
  /\ rabort[c]
  /\ rpc[c] \in {"recv", "insert", "bcast"}
  /\ rpc' = [rpc EXCEPT ![c] = "done"]
  /\ rabort' = [rabort EXCEPT ![c] = FALSE]
  /\ IF rpc[c] = "insert"
     THEN \E committed \in BOOLEAN :
            messages' = IF committed THEN messages \cup {ChatMessage(cur[c])} ELSE messages
     ELSE UNCHANGED messages
  /\ UNCHANGED << members, dropped, clients, hpc, req, outcome, trail, wpc, wabort, cur,
                  todo, skipped, queue, enq, out, nread, nderegs, deregd, left >>

\* A send_task that takes a message from its channel and writes nothing.
WriterSendDrop(c) ==
  /\ wpc[c] = "run"
  /\ queue[c] # << >>
  /\ queue' = [queue EXCEPT ![c] = Tail(@)]
  /\ UNCHANGED << members, messages, dropped, clients, hpc, req, outcome, trail, rpc, wpc,
                  rabort, wabort, cur, todo, skipped, enq, out, nread, nderegs, deregd, left >>

\* A send_task that takes the newest message of the buffer, not the oldest.
WriterSendNewest(c) ==
  /\ wpc[c] = "run"
  /\ queue[c] # << >>
  /\ queue' = [queue EXCEPT ![c] = SubSeq(@, 1, Len(@) - 1)]
  /\ \/ /\ out' = [out EXCEPT ![c] = Append(@, queue[c][Len(queue[c])])]
        /\ UNCHANGED << wpc, wabort >>
     \/ /\ wpc' = [wpc EXCEPT ![c] = "done"]
        /\ wabort' = [wabort EXCEPT ![c] = FALSE]
        /\ UNCHANGED out
  /\ UNCHANGED << members, messages, dropped, clients, hpc, req, outcome, trail, rpc,
                  rabort, cur, todo, skipped, enq, nread, nderegs, deregd, left >>

\* send_task, lines 68-72: one message from rx.recv() is written to the
\* transport; a failed write ends the task (the message is lost).
WriterSend(c) ==
  /\ wpc[c] = "run"
  /\ queue[c] # << >>
  /\ queue' = [queue EXCEPT ![c] = Tail(@)]
  /\ \/ /\ out' = [out EXCEPT ![c] = Append(@, Head(queue[c]))]
        /\ UNCHANGED << wpc, wabort >>
     \/ /\ wpc' = [wpc EXCEPT ![c] = "done"]
        /\ wabort' = [wabort EXCEPT ![c] = FALSE]
        /\ UNCHANGED out
  /\ UNCHANGED << members, messages, dropped, clients, hpc, req, outcome, trail, rpc,
                  rabort, cur, todo, skipped, enq, nread, nderegs, deregd, left >>

\* A send_task that ends as soon as its buffer is empty, senders or not.
WriterClosedEarly(c) ==
  /\ wpc[c] = "run"
  /\ queue[c] = << >>
  /\ wpc' = [wpc EXCEPT ![c] = "done"]
  /\ wabort' = [wabort EXCEPT ![c] = FALSE]
  /\ UNCHANGED << members, messages, dropped, clients, hpc, req, outcome, trail, rpc,
                  rabort, cur, todo, skipped, queue, enq, out, nread, nderegs, deregd, left >>

\* Line 68: rx.recv() returns None: the buffer is empty and every sender is gone.
WriterClosed(c) ==
  /\ wpc[c] = "run"
  /\ queue[c] = << >>
  /\ ~SenderAlive(c)
  /\ wpc' = [wpc EXCEPT ![c] = "done"]
  /\ wabort' = [wabort EXCEPT ![c] = FALSE]
  /\ UNCHANGED << members, messages, dropped, clients, hpc, req, outcome, trail, rpc,
                  rabort, cur, todo, skipped, queue, enq, out, nread, nderegs, deregd, left >>

\* JoinHandle::abort on send_task takes effect where the task waits.
WriterCancel(c) ==
  /\ wabort[c]
  /\ wpc[c] = "run"
  /\ wpc' = [wpc EXCEPT ![c] = "done"]
  /\ wabort' = [wabort EXCEPT ![c] = FALSE]
  /\ UNCHANGED << members, messages, dropped, clients, hpc, req, outcome, trail, rpc,
                  rabort, cur, todo, skipped, queue, enq, out, nread, nderegs, deregd, left >>

\* A select! whose branches abort nothing.
SelectNoAbort(c) ==
  /\ hpc[c] = "running"
  /\ wpc[c] = "done" \/ rpc[c] = "done"
  /\ hpc' = [hpc EXCEPT ![c] = "cleanup"]
  /\ UNCHANGED << members, messages, dropped, clients, req, outcome, trail, rpc, wpc, rabort,
                  wabort, cur, todo, skipped, queue, enq, out, nread, nderegs, deregd, left >>

\* Lines 129-132: select! on the two join handles; the branch of the task
\* that finished aborts the other task and does not wait for it.
Select(c) ==
  /\ hpc[c] = "running"
  /\ \/ /\ wpc[c] = "done"
        /\ rabort' = [rabort EXCEPT ![c] = rpc[c] # "done"]
        /\ UNCHANGED wabort
     \/ /\ rpc[c] = "done"
        /\ wabort' = [wabort EXCEPT ![c] = wpc[c] # "done"]
        /\ UNCHANGED rabort
  /\ hpc' = [hpc EXCEPT ![c] = "cleanup"]
  /\ UNCHANGED << members, messages, dropped, clients, req, outcome, trail, rpc, wpc, cur,
                  todo, skipped, queue, enq, out, nread, nderegs, deregd, left >>

\* A remove_client that empties the map.
remove_client_clear(map, user_id) == {}

\* A remove_client that leaves the map as it is.
remove_client_noop(map, user_id) == map

\* remove_client, manager.rs lines 48-56, on the map.
remove_client(map, user_id) == MapRemove(map, user_id)

\* A handle_socket that returns after the select! without the cleanup.
DeregisterSkipped(c) ==
  /\ hpc[c] = "cleanup"
  /\ hpc' = [hpc EXCEPT ![c] = "closed"]
  /\ UNCHANGED << members, messages, dropped, clients, req, outcome, trail, rpc, wpc, rabort,
                  wabort, cur, todo, skipped, queue, enq, out, nread, nderegs, deregd, left >>

\* Line 135: remove_client(&user_id) under the write lock; handle_socket ends.
Deregister(c) ==
  /\ hpc[c] = "cleanup"
  /\ WriteLockFree
  /\ clients' = remove_client(clients, req[c].user)
  /\ hpc' = [hpc EXCEPT ![c] = "closed"]
  /\ nderegs' = [nderegs EXCEPT ![c] = @ + 1]
  /\ deregd' = [deregd EXCEPT ![req[c].user] = TRUE]
  /\ left' = [left EXCEPT ![c] = \E r \in clients : r.user_id = req[c].user]
  /\ UNCHANGED << members, messages, dropped, req, outcome, trail, rpc, wpc, rabort, wabort,
                  cur, todo, skipped, queue, enq, out, nread >>

\* ---------------------------------------------------------- specification
Init ==
  /\ members = InitialMembers
  /\ messages = {}
  /\ dropped = {}
  /\ clients = {}
  /\ hpc = [c \in Conns |-> "idle"]
  /\ req = [c \in Conns |-> NoReq]
  /\ outcome = [c \in Conns |-> "none"]
  /\ trail = [c \in Conns |-> << >>]
  /\ rpc = [c \in Conns |-> "idle"]
  /\ wpc = [c \in Conns |-> "idle"]
  /\ rabort = [c \in Conns |-> FALSE]
  /\ wabort = [c \in Conns |-> FALSE]
  /\ cur = [c \in Conns |-> NoMsg]
  /\ todo = [c \in Conns |-> {}]
  /\ skipped = [c \in Conns |-> {}]
  /\ queue = [c \in Conns |-> << >>]
  /\ enq = [c \in Conns |-> << >>]
  /\ out = [c \in Conns |-> << >>]
  /\ nread = 0
  /\ nderegs = [c \in Conns |-> 0]
  /\ deregd = [u \in UserIds |-> FALSE]
  /\ left = [c \in Conns |-> FALSE]

ws_auth_middleware(c) ==
  \/ Authenticate(c)
  \/ LookupUser(c)
  \/ CheckMember(c)

broadcast_to_joint(c) ==
  \/ BroadcastBegin(c)
  \/ BroadcastStep(c)
  \/ BroadcastEnd(c)

recv_task(c) ==
  \/ ReaderRecv(c)
  \/ ReaderInsertOk(c)
  \/ ReaderInsertErr(c)
  \/ broadcast_to_joint(c)
  \/ ReaderCancel(c)

send_task(c) ==
  \/ WriterSend(c)
  \/ WriterClosed(c)
  \/ WriterCancel(c)

handle_socket(c) ==
  \/ Register(c)
  \/ Select(c)
  \/ Deregister(c)

Next ==
  \E c \in Conns :
    \/ ws_auth_middleware(c)
    \/ handle_socket(c)
    \/ recv_task(c)
    \/ send_task(c)

Spec == Init /\ [][Next]_vars

\* The runtime keeps polling every task that can run: handle_socket gets past
\* its select! and its remove_client, a broadcast gets through its loop, an
\* aborted task is dropped.  Nothing makes a client send a frame, the
\* database answer or the transport accept a write.
Fairness ==
  \A c \in Conns :
    /\ WF_vars(Select(c))
    /\ WF_vars(Deregister(c))
    /\ WF_vars(BroadcastStep(c))
    /\ WF_vars(BroadcastEnd(c))
    /\ WF_vars(ReaderCancel(c))
    /\ WF_vars(WriterCancel(c))

FairSpec == Spec /\ Fairness

\* The ConnectionManager on its own, called as handle_socket calls it (an
\* identity with a joint it is a member of and a channel of its own) but in
\* any order: add_client, lines 29-45.
AddClient ==
  \E user_id \in UserIds, joint_id \in Joints, sender \in Conns :
    /\ IsMember(members, joint_id, user_id)
    /\ \A r \in clients : r.sender # sender
    /\ WriteLockFree
    /\ clients' = add_client(clients, user_id, Username(user_id), joint_id, sender)
    /\ deregd' = [deregd EXCEPT ![user_id] = FALSE]
    /\ UNCHANGED << members, messages, dropped, hpc, req, outcome, trail, rpc, wpc, rabort,
                    wabort, cur, todo, skipped, queue, enq, out, nread, nderegs, left >>

\* remove_client, lines 48-56, for any identity.
RemoveClient ==
  \E user_id \in UserIds :
    /\ WriteLockFree
    /\ clients' = remove_client(clients, user_id)
    /\ deregd' = [deregd EXCEPT ![user_id] = TRUE]
    /\ UNCHANGED << members, messages, dropped, hpc, req, outcome, trail, rpc, wpc, rabort,
                    wabort, cur, todo, skipped, queue, enq, out, nread, nderegs, left >>

ManagerNext == AddClient \/ RemoveClient

ManagerSpec == Init /\ [][ManagerNext]_vars

\* ------------------------------------------------------------- properties
\* How often payload p was sent into a channel whose history is s.
Count(p, s) == Cardinality({ i \in 1..Len(s) : s[i] = p })

\* The connections whose recv_task is inside broadcast_to_joint.
Broadcasting == { c \in Conns : rpc[c] = "iter" }

\* The keys the running broadcast of c was called to reach (the map cannot
\* change while the read guard is held).
Targets(c) == Recipients(clients, cur[c].joint, cur[c].user)

\* C1, as stated: when the loop of broadcast(G, payload, X) is over, payload
\* is once in the channel of every registered record of group G other than
\* X's, and not in the channel of the record registered under X.
C1_Original ==
  \A c \in Broadcasting :
    todo[c] = {} =>
      \A r \in clients :
        /\ (r.joint_id = cur[c].joint /\ r.user_id # cur[c].user)
             => Count(OutgoingMessage(cur[c]), enq[r.sender]) = 1
        /\ r.user_id = cur[c].user
             => Count(OutgoingMessage(cur[c]), enq[r.sender]) = 0

\* C1, amended: during and after the loop of broadcast(G, payload, X), payload
\* is once in the channel of every visited record of group G other than X's
\* whose receiver was alive at the send, not at all in the channel of a
\* record whose receiver was gone (the send failed) or that is yet to be
\* visited, never in the channel of the record registered under X, and
\* nowhere more than once.
C1_BroadcastDelivers ==
  \A c \in Broadcasting :
    /\ \A r \in clients :
         /\ (r.joint_id = cur[c].joint /\ r.user_id # cur[c].user) =>
              Count(OutgoingMessage(cur[c]), enq[r.sender]) =
                (IF r.user_id \in todo[c] \cup skipped[c] THEN 0 ELSE 1)
         /\ r.user_id \in skipped[c] => ~ReceiverAlive(r.sender)
         /\ r.user_id = cur[c].user =>
              Count(OutgoingMessage(cur[c]), enq[r.sender]) = 0
    /\ \A d \in Conns : Count(OutgoingMessage(cur[c]), enq[d]) <= 1

\* C1's case: a broadcast from a registered sender has reached two other
\* records of its group.
C1_Witness ==
  \E c \in Broadcasting :
    /\ todo[c] = {}
    /\ \E r \in clients : r.sender = c
    /\ Cardinality({ u \in Targets(c) \ skipped[c] :
                       Count(OutgoingMessage(cur[c]), enq[ClientOf(clients, u).sender]) = 1 }) >= 2

\* C2: every payload ever sent into a channel is the payload of a row of
\* table messages, and no message whose INSERT failed is among them.
C2_PersistBeforeBroadcast ==
  \A d \in Conns : \A i \in 1..Len(enq[d]) :
    /\ enq[d][i].id \notin dropped
    /\ \E m \in messages :
         /\ m.id = enq[d][i].id
         /\ m.joint_id = enq[d][i].joint_id
         /\ m.user_id = enq[d][i].user_id
         /\ m.content = enq[d][i].content

\* C2's case: one message was dropped on a failed INSERT and another one
\* was persisted and delivered.
C2_Witness ==
  /\ dropped # {}
  /\ \E d \in Conns : enq[d] # << >>

\* C3: while remove_client(identity) has returned and add_client has not
\* been called for that identity since, no step sends a payload into the
\* channel of any connection of that identity.
C3_NoDeliveryAfterDeregister ==
  [][ \A d \in Conns :
        (req[d].user \in UserIds /\ deregd[req[d].user]) => enq'[d] = enq[d] ]_vars

\* C3's case: a broadcast to the group of a deregistered identity, sent by
\* somebody else, has run to its end.
C3_Witness ==
  \E c \in Broadcasting, d \in Conns :
    /\ todo[c] = {}
    /\ hpc[d] = "closed"
    /\ deregd[req[d].user]
    /\ req[d].joint = cur[c].joint
    /\ req[d].user # cur[c].user

\* C4: the map holds at most one record per identity; add_client for an
\* identity leaves exactly one record for it, the one with the new sender;
\* and a payload is only ever sent into the channel of the record the map
\* holds, never into a superseded one.
C4_OneRecordPerIdentity ==
  /\ [](\A r1, r2 \in clients : r1.user_id = r2.user_id => r1 = r2)
  /\ [][ \A c \in Conns :
           /\ (hpc[c] = "admitted" /\ hpc'[c] = "running") =>
                { r \in clients' : r.user_id = req[c].user }
                  = { Client(req[c].user, req[c].name, req[c].joint, c) }
           /\ enq'[c] # enq[c] =>
                \E r \in clients : r.user_id = req[c].user /\ r.sender = c ]_vars

\* C4's case: an identity registered a second connection, and a broadcast of
\* another sender then reached the new channel and not the superseded one.
C4_Witness ==
  \E c \in Broadcasting, d1, d2 \in Conns :
    /\ d1 # d2
    /\ req[d1].user = req[d2].user
    /\ hpc[d1] = "running"
    /\ \E r \in clients : r.user_id = req[d2].user /\ r.sender = d2
    /\ req[d2].user # cur[c].user
    /\ Count(OutgoingMessage(cur[c]), enq[d2]) = 1
    /\ Count(OutgoingMessage(cur[c]), enq[d1]) = 0

\* A unit of the relay of c has ended and its handle_socket has yet to see it.
UnitEnded(c) == hpc[c] = "running" /\ (rpc[c] = "done" \/ wpc[c] = "done")

\* C5: a relay calls remove_client at most once, only in its teardown (after
\* the select! saw a unit end), and, once a unit has ended, it does call it.
C5_DeregisterExactlyOnce ==
  /\ [](\A c \in Conns : nderegs[c] <= 1 /\ (nderegs[c] = 1 <=> hpc[c] = "closed"))
  /\ [][ \A c \in Conns :
           nderegs'[c] # nderegs[c] =>
             hpc[c] = "cleanup" /\ (rpc[c] = "done" \/ wpc[c] = "done") ]_vars
  /\ \A c \in Conns : UnitEnded(c) ~> (nderegs[c] = 1)

\* C5's case: a relay that registered has called remove_client.
C5_Witness ==
  \E c \in Conns : nderegs[c] = 1 /\ trail[c] # << >> /\ hpc[c] = "closed"

\* C6, as stated: once the remove_client call of a relay has begun, its
\* recv_task records no INSERT and sends nothing in a broadcast, and its
\* send_task writes nothing to the transport.
C6_Original ==
  [][ \A c \in Conns :
        hpc[c] \in {"cleanup", "closed"} =>
          /\ ~ReaderInsertOk(c)
          /\ ~BroadcastBegin(c)
          /\ ~BroadcastStep(c)
          /\ out'[c] = out[c] ]_vars

\* A unit of the relay of c has ended and its remove_client is yet to come.
TeardownDue(c) ==
  hpc[c] \in {"running", "cleanup"} /\ (rpc[c] = "done" \/ wpc[c] = "done")

\* C7: once a unit of a relay has ended, the other unit ends too, the relay
\* calls remove_client and no record with its channel stays in the map: a
\* record whose receiver is gone does not stay in the map for ever.
C7_TerminationLeadsToDeregistration ==
  \A c \in Conns :
    TeardownDue(c) ~>
      (/\ hpc[c] = "closed"
       /\ rpc[c] = "done"
       /\ wpc[c] = "done"
       /\ ~SenderAlive(c))

\* C7's case: a relay whose send_task ended with payloads undelivered is
\* torn down, both tasks gone and its record out of the map.
C7_Witness ==
  \E c \in Conns :
    /\ hpc[c] = "closed"
    /\ rpc[c] = "done"
    /\ wpc[c] = "done"
    /\ Len(out[c]) < Len(enq[c])
    /\ ~SenderAlive(c)

\* The records of the map whose receiver is gone.
DeadRecords == { r \in clients : ~ReceiverAlive(r.sender) }

\* C8, as stated: the map never holds two dead records, and a record a
\* broadcast found dead (its send failed) is no longer in the map.
C8_Original ==
  /\ Cardinality(DeadRecords) <= 1
  /\ \A c \in Broadcasting : \A u \in skipped[c] : ~\E r \in clients : r.user_id = u

\* C8, amended: a dead record may stay in the map, next to others; a failed
\* send leaves the map as it is; and every dead record belongs to a relay
\* whose own remove_client call is still to come.
C8_DeadRecordAwaitsTeardown ==
  /\ [](\A r \in DeadRecords : hpc[r.sender] \in {"running", "cleanup"})
  /\ [][ (\E c \in Conns : skipped'[c] # skipped[c]) => clients' = clients ]_vars

\* C8's case: a broadcast found a record dead, and the record is in the map.
C8_Witness ==
  \E c \in Broadcasting : \E u \in skipped[c] :
    \E r \in DeadRecords : r.user_id = u

\* C9: a failed send is skipped: the loop goes on to the other matching
\* records, so that when it is over every one of them was either sent the
\* payload once or found dead; the call returns to recv_task, which reads on;
\* the sender's relay and the rows of table messages are left alone.
C9_FailedSendSkipped ==
  /\ [](\A c \in Broadcasting :
          /\ ChatMessage(cur[c]) \in messages
          /\ todo[c] = {} =>
               \A u \in Targets(c) :
                 \/ u \in skipped[c]
                 \/ Count(OutgoingMessage(cur[c]), enq[ClientOf(clients, u).sender]) = 1)
  /\ [][ /\ messages \subseteq messages'
         /\ \A c \in Conns :
              rpc[c] = "iter" =>
                /\ rpc'[c] \in {"iter", "recv"}
                /\ (BroadcastStep(c) \/ BroadcastEnd(c)) =>
                     hpc'[c] = hpc[c] /\ wpc'[c] = wpc[c] ]_vars

\* C9's case: a broadcast is over, one send of it failed and another
\* recipient got the payload.
C9_Witness ==
  \E c \in Broadcasting :
    /\ todo[c] = {}
    /\ skipped[c] # {}
    /\ \E u \in Targets(c) \ skipped[c] :
         Count(OutgoingMessage(cur[c]), enq[ClientOf(clients, u).sender]) = 1

\* The admission checks of connection c, all passed, in the order of the
\* middleware.
Admitted(c) ==
  /\ Len(trail[c]) = 3
  /\ trail[c][1] = <<"credential", req[c].user, "-">>
  /\ trail[c][2] = <<"identity", req[c].user, req[c].name>>
  /\ trail[c][3] = <<"membership", req[c].user, req[c].joint>>

C11_Original ==
  \A c \in Conns :
    hpc[c] = "refused" => StatusCode(outcome[c]) \in {"UNAUTHORIZED", "BAD_REQUEST"}

\* C11, amended: a refused attempt was answered 401, 400 or 500; a missing or
\* unusable credential and a subject without a row in users give 401, an
\* identity that is not a member of the joint gives 400, a failed SELECT (of
\* users or of joint_members) gives 500 and these are the only ways to fail;
\* in every one of them the upgrade is refused: no task, no record, and the
\* attempt never gets any further.
C11_RefusalOutcomes ==
  /\ [](\A c \in Conns :
          hpc[c] = "refused" =>
            /\ StatusCode(outcome[c]) \in {"UNAUTHORIZED", "BAD_REQUEST", "INTERNAL_SERVER_ERROR"}
            /\ rpc[c] = "idle" /\ wpc[c] = "idle" /\ ~SenderAlive(c)
            /\ req[c] = NoReq)
  /\ [][ \A c \in Conns :
           /\ hpc[c] = "refused" => hpc'[c] = "refused" /\ outcome'[c] = outcome[c]
           /\ (hpc[c] # "refused" /\ hpc'[c] = "refused") =>
                CASE hpc[c] = "idle"  -> StatusCode(outcome'[c]) = "UNAUTHORIZED"
                  [] hpc[c] = "authd" ->
                       \/ outcome'[c] = "DatabaseError"
                       \/ /\ req[c].user \notin UserIds
                          /\ StatusCode(outcome'[c]) = "UNAUTHORIZED"
                  [] hpc[c] = "named" ->
                       \/ outcome'[c] = "DatabaseError"
                       \/ /\ ~IsMember(members, req[c].joint, req[c].user)
                          /\ StatusCode(outcome'[c]) = "BAD_REQUEST"
                  [] OTHER -> FALSE
           /\ (hpc[c] = "named" /\ hpc'[c] # "named"
                 /\ ~IsMember(members, req[c].joint, req[c].user)) =>
                hpc'[c] = "refused" ]_vars

\* C11's case: three attempts were refused, one with 401, one with 400 at
\* the membership check and one with 500 on a failed lookup.
C11_Witness ==
  \E c1, c2, c3 \in Conns :
    /\ hpc[c1] = "refused" /\ StatusCode(outcome[c1]) = "UNAUTHORIZED"
    /\ hpc[c2] = "refused" /\ StatusCode(outcome[c2]) = "BAD_REQUEST" /\ Len(trail[c2]) = 2
    /\ hpc[c3] = "refused" /\ StatusCode(outcome[c3]) = "INTERNAL_SERVER_ERROR"

\* The payloads of s that one connection's recv_task sent stand in s in the
\* order in which that recv_task read their frames.
ReaderOrder(s) ==
  \A i, j \in 1..Len(s) :
    (i < j /\ IdConn(s[i].id) = IdConn(s[j].id)) => IdFrame(s[i].id) < IdFrame(s[j].id)

\* s is the start of t.
IsPrefix(s, t) == Len(s) <= Len(t) /\ s = SubSeq(t, 1, Len(s))

\* s is the end of t.
IsSuffix(s, t) == Len(s) <= Len(t) /\ s = SubSeq(t, Len(t) - Len(s) + 1, Len(t))

SettledIds(c) ==
  { id \in { m.id : m \in messages } \cup dropped
            \cup UNION { { enq[d][i].id : i \in 1..Len(enq[d]) } : d \in Conns } :
      IdConn(id) = c }

\* C13: recv_task handles its frames one at a time and in reading order: it
\* reads a frame only when nothing of an earlier frame is pending; the
\* message it is handling is that of the latest frame it read; a row is
\* inserted, and a broadcast called, only for that message, so rows and
\* broadcasts of one connection follow the order of its frames, each frame
\* giving at most one row and one broadcast.
C13_ReaderInOrder ==
  /\ [](\A c \in Conns :
          /\ rpc[c] = "recv" => cur[c] = NoMsg /\ todo[c] = {}
          /\ cur[c] # NoMsg =>
               /\ IdConn(cur[c].id) = c
               /\ IdFrame(cur[c].id) <= nread
               /\ \A id \in SettledIds(c) \ {cur[c].id} : IdFrame(id) < IdFrame(cur[c].id)
          /\ \A id \in SettledIds(c) : IdFrame(id) <= nread)
  /\ [][ \A c \in Conns :
           /\ ReaderRecv(c) => cur[c] = NoMsg /\ todo[c] = {}
           /\ \A m \in messages' \ messages :
                IdConn(m.id) = c =>
                  /\ \A id \in SettledIds(c) : IdFrame(id) < IdFrame(m.id)
                  /\ \/ m = ChatMessage(cur[c])
                     \/ rpc[c] = "recv" /\ IdFrame(m.id) = nread + 1
           /\ BroadcastBegin(c) =>
                /\ ChatMessage(cur[c]) \in messages
                /\ \A d \in Conns : \A i \in 1..Len(enq[d]) :
                     IdConn(enq[d][i].id) = c => IdFrame(enq[d][i].id) < IdFrame(cur[c].id)
           /\ \A d \in Conns :
                enq'[d] # enq[d] /\ IdConn(enq'[d][Len(enq'[d])].id) = c =>
                  /\ rpc[c] = "iter"
                  /\ enq'[d] = Append(enq[d], OutgoingMessage(cur[c])) ]_vars

\* C13's case: one connection read two frames; both were persisted and both
\* were broadcast, the second being in its loop.
C13_Witness ==
  \E c \in Broadcasting :
    /\ todo[c] = {}
    /\ \E m \in messages : IdConn(m.id) = c /\ IdFrame(m.id) < IdFrame(cur[c].id)
    /\ \E d \in Conns : Len(enq[d]) = 2 /\ enq[d][2] = OutgoingMessage(cur[c])
                          /\ IdConn(enq[d][1].id) = c

\* The ids of the payloads ever sent into a channel.
SentIds == UNION { { enq[d][i].id : i \in 1..Len(enq[d]) } : d \in Conns }

\* C14: a message whose INSERT failed is never in table messages, never in a
\* channel and never handled again; the step that drops it leaves the map,
\* the channels, the transports, table messages, the relay and its send_task
\* as they are and puts recv_task back at receiver.next().
C14_PersistFailureDropsFrame ==
  /\ [](\A id \in dropped :
          /\ id \notin { m.id : m \in messages }
          /\ id \notin SentIds
          /\ \A c \in Conns : cur[c].id # id)
  /\ [][ dropped' # dropped =>
           \E c \in Conns :
             /\ rpc[c] = "insert"
             /\ dropped' = dropped \cup {cur[c].id}
             /\ rpc' = [rpc EXCEPT ![c] = "recv"]
             /\ cur' = [cur EXCEPT ![c] = NoMsg]
             /\ UNCHANGED << clients, queue, enq, out, messages, hpc, wpc, rabort, wabort,
                             todo, skipped, members >> ]_vars

\* C14's case: the INSERT of a frame of a connection failed; the connection
\* is still running and registered, and the next frame it read was persisted
\* and sent to another connection.
C14_Witness ==
  \E c \in Conns : \E id \in dropped : \E m \in messages :
    /\ IdConn(id) = c
    /\ IdConn(m.id) = c
    /\ IdFrame(id) < IdFrame(m.id)
    /\ m.id \in SentIds
    /\ hpc[c] = "running"
    /\ \E r \in clients : r.sender = c

\* A step of the teardown of the relay of c: a task of it ends (transport
\* closed or failed, channel closed, abort), its select! returns and aborts
\* the other task, or its remove_client is called.
TeardownStep(c) ==
  \/ hpc'[c] # hpc[c] /\ hpc'[c] \in {"cleanup", "closed"}
  \/ rpc[c] # "done" /\ rpc'[c] = "done"
  \/ wpc[c] # "done" /\ wpc'[c] = "done"
  \/ rabort'[c] # rabort[c]
  \/ wabort'[c] # wabort[c]

Online(G) == { u \in UserIds : \E r \in clients : r.user_id = u /\ r.joint_id = G }

\* C16, as stated: the count of G is the number of identities registered in
\* G, and no add_client of a record of another joint and no remove_client of
\* a record of another joint changes it.
C16_Original ==
  /\ [](\A G \in Joints : get_joint_user_count(clients, G) = Cardinality(Online(G)))
  /\ [][ \A G \in Joints :
           (\/ \E r \in clients' \ clients : r.joint_id # G
            \/ clients' \subseteq clients /\ \A r \in clients \ clients' : r.joint_id # G)
             => get_joint_user_count(clients', G) = get_joint_user_count(clients, G) ]_vars

\* C16, amended: the count of G is the number of identities registered in
\* G; it changes only in a step that puts a record of G into the map or takes
\* one out; remove_client of a record of another joint leaves it alone, and
\* add_client of a record of another joint lowers it by one exactly when the
\* identity held a record of G, which the new record replaces.
C16_CountInGroup ==
  /\ [](\A G \in Joints : get_joint_user_count(clients, G) = Cardinality(Online(G)))
  /\ [][ \A G \in Joints :
           /\ get_joint_user_count(clients', G) # get_joint_user_count(clients, G) =>
                \E r \in (clients' \ clients) \cup (clients \ clients') : r.joint_id = G
           /\ (clients' \subseteq clients /\ \A r \in clients \ clients' : r.joint_id # G) =>
                get_joint_user_count(clients', G) = get_joint_user_count(clients, G)
           /\ \A r \in clients' \ clients :
                r.joint_id # G =>
                  get_joint_user_count(clients', G) =
                    get_joint_user_count(clients, G)
                      - (IF r.user_id \in Online(G) THEN 1 ELSE 0) ]_vars

\* C16's case: after registrations in both joints and a deregistration, the
\* map holds a record of G1 and a record of G2, the latter of an identity
\* that is a member of G1 too.
C16_Witness ==
  /\ get_joint_user_count(clients, "G1") = 1
  /\ get_joint_user_count(clients, "G2") = 1
  /\ \E u \in Online("G2") : IsMember(members, "G1", u)
  /\ \E u \in UserIds : deregd[u]

\* C17: remove_client for an identity without a record leaves the map as it
\* is, and removing an identity twice gives the map that removing it once
\* gives; a relay whose identity has no record left calls remove_client all
\* the same, which changes nothing in the map, logs nothing, raises no error
\* and lets handle_socket return.
C17_DeregisterIdempotent ==
  /\ [](\A u \in UserIds :
          /\ (~\E r \in clients : r.user_id = u) => remove_client(clients, u) = clients
          /\ remove_client(remove_client(clients, u), u) = remove_client(clients, u))
  /\ [][ \A c \in Conns :
           (/\ nderegs'[c] # nderegs[c]
            /\ ~\E r \in clients : r.user_id = req[c].user) =>
             /\ clients' = clients
             /\ hpc'[c] = "closed"
             /\ ~left'[c]
             /\ outcome' = outcome ]_vars

\* C17's case: a relay has called remove_client for an identity that had no
\* record (another relay of the identity had removed it), while another
\* identity's record is in the map.
C17_Witness ==
  \E c \in Conns :
    /\ hpc[c] = "closed"
    /\ nderegs[c] = 1
    /\ ~left[c]
    /\ deregd[req[c].user]
    /\ clients # {}

\* The keys of the running broadcast of c that were sent the payload.
Delivered(c) ==
  { u \in Targets(c) : Count(OutgoingMessage(cur[c]), enq[ClientOf(clients, u).sender]) = 1 }

\* C18: the map changes only in a step of one add_client or one
\* remove_client, taken while no broadcast holds the read guard; while a
\* broadcast is in its loop the map stays as it was when the loop began, so
\* the keys the loop has visited and has yet to visit are together the
\* matching records of that one map; broadcasts may be in their loops
\* together.
C18_ReadersWriterDiscipline ==
  /\ [][ clients' # clients =>
           /\ ReadGuards = {}
           /\ \E c \in Conns :
                /\ \A d \in Conns \ {c} : hpc'[d] = hpc[d]
                /\ \/ /\ hpc[c] = "admitted" /\ hpc'[c] = "running"
                      /\ clients' = add_client(clients, req[c].user, req[c].name, req[c].joint, c)
                   \/ /\ hpc[c] = "cleanup" /\ hpc'[c] = "closed"
                      /\ clients' = remove_client(clients, req[c].user) ]_vars
  /\ [][ \A c \in Conns :
           rpc[c] = "iter" =>
             /\ clients' = clients
             /\ rpc'[c] = "iter" => todo'[c] \subseteq todo[c] ]_vars
  /\ [](\A c \in Broadcasting :
          /\ todo[c] \cup skipped[c] \cup Delivered(c) = Targets(c)
          /\ todo[c] \cap skipped[c] = {}
          /\ todo[c] \cap Delivered(c) = {}
          /\ skipped[c] \cap Delivered(c) = {})

\* C18's case: two broadcasts are in their loops at once, one of them having
\* sent to a record, while a relay waits to change the map.
C18_Witness ==
  /\ Cardinality(Broadcasting) = 2
  /\ \E c \in Broadcasting : Delivered(c) # {}
  /\ \E c \in Conns : hpc[c] \in {"admitted", "cleanup"}

\* C19: a broadcast never waits for a recipient: whatever the channels hold,
\* the loop can take its next entry at once; it leaves the loop only with
\* every entry visited, back at receiver.next(); and, with no send_task ever
\* taking a payload out of its channel, every broadcast still gets through
\* its loop and returns, so that the read guards are all released and an
\* add_client or remove_client that waits for the write lock can go on.
C19_BroadcastNeverBlocks ==
  /\ [](\A c \in Broadcasting : todo[c] # {} => ENABLED BroadcastStep(c))
  /\ [][ \A c \in Conns :
           (rpc[c] = "iter" /\ rpc'[c] # "iter") => todo[c] = {} /\ rpc'[c] = "recv" ]_vars
  /\ (ReadGuards # {}) ~> (ReadGuards = {})

\* C19's case: a connection's two broadcasts have returned; one recipient's
\* send_task has taken nothing out of its channel, another recipient's has
\* written both payloads.
C19_Witness ==
  \E c, d1, d2 \in Conns :
    /\ rpc[c] = "recv"
    /\ wpc[d1] = "run" /\ out[d1] = << >> /\ Len(queue[d1]) = 2
    /\ Len(out[d2]) = 2
    /\ \A i \in 1..2 : IdConn(queue[d1][i].id) = c /\ IdConn(out[d2][i].id) = c

\* The relay of d is registered and running: its record is in the map, its
\* handle_socket waits in the select! and both its tasks are alive.
RelayRunning(d) ==
  /\ hpc[d] = "running"
  /\ rpc[d] \in {"recv", "insert", "bcast", "iter"}
  /\ wpc[d] = "run"
  /\ \E r \in clients : r.sender = d /\ r.user_id = req[d].user /\ r.joint_id = req[d].joint

AloneInJoint(c) ==
  \A r \in clients : r.joint_id = cur[c].joint => r.user_id = cur[c].user

\* C21: a broadcast for a joint in which no record but the sender's is
\* registered has nothing to visit, fails no send and puts its payload in no
\* channel; its loop is over at once and the call can return.
C21_BroadcastToNobody ==
  \A c \in Broadcasting :
    AloneInJoint(c) =>
      /\ todo[c] = {}
      /\ skipped[c] = {}
      /\ cur[c].id \notin SentIds
      /\ ENABLED BroadcastEnd(c)

\* C21's case: a registered connection, alone in its joint, had a frame
\* persisted and its broadcast has returned: the map holds its record only
\* and no channel was ever sent anything.
C21_Witness ==
  \E c \in Conns :
    /\ hpc[c] = "running" /\ rpc[c] = "recv" /\ cur[c] = NoMsg
    /\ \E m \in messages : IdConn(m.id) = c
    /\ clients = { Client(req[c].user, req[c].name, req[c].joint, c) }
    /\ \A d \in Conns : enq[d] = << >>

\* C22: a frame that recv_task reads and that leaves it waiting for the next
\* frame (text that does not parse, or a frame that is neither text nor
\* close) changes nothing but the count of frames read: no row, no logged
\* failure, no message in hand, the map, the channels, the transports and
\* the relay as they were; and wherever recv_task can read a frame, it can
\* read such a frame and stay.
C22_MalformedFrameIgnored ==
  /\ [][ \A c \in Conns :
           (ReaderRecv(c) /\ rpc'[c] = "recv") =>
             /\ nread' = nread + 1
             /\ UNCHANGED << members, messages, dropped, clients, hpc, req, outcome, trail,
                             rpc, wpc, rabort, wabort, cur, todo, skipped, queue, enq, out,
                             nderegs, deregd, left >> ]_vars
  /\ [](\A c \in Conns :
          ENABLED ReaderRecv(c) => ENABLED (ReaderRecv(c) /\ rpc'[c] = "recv"))

\* C22's case: two frames were read and ignored by a registered connection:
\* nothing was persisted, dropped or sent, and the connection's relay runs
\* with its recv_task waiting for the next frame.
C22_Witness ==
  /\ nread = 2
  /\ messages = {} /\ dropped = {}
  /\ \A c \in Conns : cur[c] = NoMsg /\ rpc[c] \in {"idle", "recv"} /\ enq[c] = << >>
  /\ \E c \in Conns : hpc[c] = "running" /\ rpc[c] = "recv" /\ wpc[c] = "run"
                        /\ \E r \in clients : r.sender = c

\* C23: every channel whose receiver is alive holds, in what send_task has
\* written and what is still in the buffer, exactly the payloads sent into
\* it, each once; and when the loops of two broadcasts of different senders
\* that run together are over, a record both were to reach, its receiver
\* alive, has the payload of each exactly once.
C23_ConcurrentProducers ==
  /\ \A d \in Conns :
       /\ ReceiverAlive(d) => out[d] \o queue[d] = enq[d]
       /\ \A i, j \in 1..Len(enq[d]) : enq[d][i].id = enq[d][j].id => i = j
  /\ \A c1, c2 \in Broadcasting :
       (c1 # c2 /\ todo[c1] = {} /\ todo[c2] = {}) =>
         \A r \in clients :
           (r.user_id \in Targets(c1) \cap Targets(c2) /\ ReceiverAlive(r.sender)) =>
             /\ Count(OutgoingMessage(cur[c1]), out[r.sender] \o queue[r.sender]) = 1
             /\ Count(OutgoingMessage(cur[c2]), out[r.sender] \o queue[r.sender]) = 1

\* C23's case: the broadcasts of two senders of one joint are in their loops
\* together, both over, and the buffer of a third connection holds both
\* payloads.
C23_Witness ==
  \E c1, c2 \in Broadcasting, d \in Conns :
    /\ req[c1].user # req[c2].user
    /\ todo[c1] = {} /\ todo[c2] = {}
    /\ Len(queue[d]) = 2
    /\ { queue[d][1], queue[d][2] } = { OutgoingMessage(cur[c1]), OutgoingMessage(cur[c2]) }

\* C24, as stated: the remove_client call of the relay of c takes out of the
\* map no record but the one that holds the sender of c's own channel.
C24_Original ==
  [][ \A c \in Conns :
        nderegs'[c] # nderegs[c] =>
          \A r \in clients \ clients' : r.sender = c ]_vars

\* C25, as stated: a relay that is registered and running, both tasks alive,
\* loses its record only by being superseded, that is in a step that stores
\* a record of another connection under its identity; so as long as it runs
\* unsuperseded its record is in the map and broadcasts reach its channel.
C25_Original ==
  [][ \A d \in Conns :
        (RelayRunning(d) /\ ~\E r \in clients' : r.sender = d) =>
          \E r \in clients' : r.user_id = req[d].user /\ r.sender # d ]_vars

\* send_task is polled as well: woken by a message or by the closing of its
\* channel, it writes the message (the write ends, well or not) or gets None.
\* Still nothing makes a client send a frame.
WriterFairness ==
  \A c \in Conns :
    /\ WF_vars(WriterSend(c))
    /\ WF_vars(WriterClosed(c))

DrainSpec == FairSpec /\ WriterFairness

\* The relay of d is registered and its handle_socket has not reached
\* remove_client, while the map holds, under the identity of d, the record
\* of another connection: add_client has replaced the record of d.
Superseded(d) ==
  /\ hpc[d] \in {"running", "cleanup"}
  /\ \E r \in clients : r.user_id = req[d].user /\ r.sender # d

C27_WriterFifo ==
  \A d \in Conns :
    /\ IsPrefix(out[d], enq[d])
    /\ wpc[d] = "run" =>
         /\ IsSuffix(queue[d], enq[d])
         /\ Len(out[d]) + Len(queue[d]) = Len(enq[d])
         /\ (ENABLED (Next /\ wpc'[d] = "done")) <=>
              (queue[d] # << >> \/ ~SenderAlive(d) \/ wabort[d])
         /\ (queue[d] = << >> /\ ~SenderAlive(d)) => ENABLED WriterClosed(d)
         /\ queue[d] # << >> =>
              ENABLED (WriterSend(d) /\ wpc'[d] = "done" /\ out'[d] = out[d])
         /\ wabort[d] => ENABLED WriterCancel(d)

\* C27's case: a send_task has written two different messages, all that was
\* sent into its channel, and then ended by itself, before recv_task, on
\* the closed channel.
C27_Witness ==
  \E d \in Conns :
    /\ wpc[d] = "done"
    /\ hpc[d] = "cleanup"
    /\ rabort[d]
    /\ Len(out[d]) = 2
    /\ out[d][1] # out[d][2]
    /\ out[d] = enq[d]

\* C28, as stated: a row of a relay enters table messages only in a step
\* that takes its recv_task to the broadcast_to_joint call for that message,
\* and from there the next step of the task is that call, whatever its
\* handle_socket is doing: every row written is broadcast, once.
C28_Original ==
  [][ \A c \in Conns :
        /\ \A row \in messages' \ messages :
             IdConn(row.id) = c => (rpc'[c] = "bcast" /\ cur'[c].id = row.id)
        /\ rpc[c] = "bcast" => rpc'[c] \in {"bcast", "iter"} ]_vars

LeaveJoint ==
  /\ \E m \in members :
       /\ m.role # "creator"
       /\ members' = members \ {m}
  /\ UNCHANGED << messages, dropped, clients, hpc, req, outcome, trail, rpc, wpc, rabort,
                  wabort, cur, todo, skipped, queue, enq, out, nread, nderegs, deregd, left >>

\* The relay together with the HTTP handler that removes memberships.
LeaveNext == Next \/ LeaveJoint

LeaveSpec == Init /\ [][LeaveNext]_vars

\* C30, as stated: the identity of every record of the map is, in table
\* joint_members, a member of the record's joint, leave_joint or not.
C30_Original ==
  \A r \in clients : IsMember(members, r.joint_id, r.user_id)

\* The relays that have called add_client and not yet remove_client.
OpenRelays == { c \in Conns : hpc[c] \in {"running", "cleanup"} }

\* C31: every record of the map holds the sender of a relay that has still
\* to call remove_client; so once every relay that called add_client has
\* called remove_client the map is empty, two relays of one identity or not.
C31_NoLeakedRecords ==
  /\ \A r \in clients : r.sender \in OpenRelays /\ req[r.sender].user = r.user_id
  /\ OpenRelays = {} => clients = {}

\* C31's case: two relays of one identity have both called remove_client,
\* one of them found no entry, no relay is open and the map is empty.
C31_Witness ==
  /\ OpenRelays = {}
  /\ clients = {}
  /\ \E c, d \in Conns :
       /\ c # d
       /\ req[c].user = req[d].user
       /\ nderegs[c] = 1 /\ nderegs[d] = 1
       /\ left[c] /\ ~left[d]

\* C32: while a send_task runs, what was sent into its channel is what it
\* has written followed by its buffer, and, the task being polled, a
\* backlog leads to everything sent so far being written unless the task
\* ends first (a failed write, or the abort of the teardown); once the task
\* has ended nothing more is written and its buffer stays as it was.
C32_QueuedEventuallyWritten ==
  /\ [](\A d \in Conns : wpc[d] = "run" => out[d] \o queue[d] = enq[d])
  /\ [][ \A d \in Conns :
           wpc[d] = "done" => (out'[d] = out[d] /\ queue'[d] = queue[d]) ]_vars
  /\ \A d \in Conns :
       (wpc[d] = "run" /\ queue[d] # << >>) ~> (out[d] = enq[d] \/ wpc[d] = "done")

\* C32's case: a payload was sent to two relays; the send_task of one has
\* written it and that relay runs on; the send_task of the other was dropped
\* by the abort of its relay's teardown with the payload in its buffer, and
\* that relay has finished its teardown.
C32_Witness ==
  \E d, e \in Conns :
    /\ hpc[d] = "closed"
    /\ wpc[d] = "done"
    /\ rpc[d] = "done"
    /\ out[d] = << >>
    /\ queue[d] # << >>
    /\ queue[d] = enq[d]
    /\ RelayRunning(e)
    /\ out[e] = enq[d]
    /\ queue[e] = << >>

====
